---- MODULE Spec2Model ----
(***************************************************************************)
(* A model of package hapi (handler.go): NewHandler compiles a list of     *)
(* parameter descriptors into a Handler, and Handler.ServeHTTP resolves    *)
(* the parameters of a request (args, parseArgs), calls the bound Proc and *)
(* writes the response.                                                    *)
(*                                                                         *)
(* A Go string is modelled as a sequence of tokens: the separators "/",    *)
(* "&" and "=" are tokens of their own and every other token stands for a  *)
(* run of ordinary characters.  URL escapes ("%xx", "+") and ";" do not    *)
(* occur in the strings of the model.                                      *)
(***************************************************************************)
EXTENDS Integers, Sequences, FiniteSets, TLC

\* ------------------------------------------------------------------ bounds
\* Requests served on one binding in a run.
MaxServed == 2
\* Descriptors in a registered parameter list.
MaxSpec == 2
\* Values one source supplies for a name.
MaxVals == 2

\* ------------------------------------------------------------ Go strings
Str(t) == <<t>>
Empty == <<>>

RECURSIVE SplitOn(_, _)
\* strings.Split(s, sep) for a one-token separator
SplitOn(s, sep) ==
  IF \A i \in 1..Len(s) : s[i] # sep
  THEN <<s>>
  ELSE LET i == CHOOSE j \in 1..Len(s) :
                  s[j] = sep /\ \A m \in 1..(j - 1) : s[m] # sep
       IN <<SubSeq(s, 1, i - 1)>> \o SplitOn(SubSeq(s, i + 1, Len(s)), sep)

\* strings.Cut(s, "="): the key before the first "=", the value after it
CutEq(s) ==
  IF \A i \in 1..Len(s) : s[i] # "="
  THEN [k |-> s, v |-> Empty]
  ELSE LET i == CHOOSE j \in 1..Len(s) :
                  s[j] = "=" /\ \A m \in 1..(j - 1) : s[m] # "="
       IN [k |-> SubSeq(s, 1, i - 1), v |-> SubSeq(s, i + 1, Len(s))]

RECURSIVE SelectPairs(_)
SelectPairs(pieces) ==
  IF pieces = <<>> THEN <<>>
  ELSE IF Head(pieces) = Empty THEN SelectPairs(Tail(pieces))
  ELSE <<CutEq(Head(pieces))>> \o SelectPairs(Tail(pieces))

RECURSIVE ValuesOf(_, _)
ValuesOf(pairs, k) ==
  IF pairs = <<>> THEN <<>>
  ELSE IF Head(pairs).k = k THEN <<Head(pairs).v>> \o ValuesOf(Tail(pairs), k)
  ELSE ValuesOf(Tail(pairs), k)

\* url.ParseQuery(s): the "&"-separated pieces, empty ones skipped, each cut
\* at its first "="; the values of one key are kept in order of appearance.
ParseQuery(s) ==
  LET pairs == SelectPairs(SplitOn(s, "&"))
      keys == {pairs[i].k : i \in 1..Len(pairs)}
  IN [k \in keys |-> ValuesOf(pairs, k)]

RECURSIVE TrimSlashes(_)
TrimSlashes(s) ==
  IF s # <<>> /\ s[Len(s)] = "/" THEN TrimSlashes(SubSeq(s, 1, Len(s) - 1)) ELSE s

\* path.Base(s)
Base(s) ==
  IF s = <<>> THEN Str(".")
  ELSE LET t == TrimSlashes(s)
       IN IF t = <<>> THEN Str("/")
          ELSE LET parts == SplitOn(t, "/") IN parts[Len(parts)]

\* strings.ToLower on the type strings of the model
ToLower(t) ==
  CASE t = "INT" -> "int"
    [] t = "Bool" -> "bool"
    [] t = "FILE" -> "file"
    [] OTHER -> t

\* ------------------------------------------------------------ strconv
IntToks == {"0", "1", "7"}
IntOf(t) == CASE t = "0" -> 0 [] t = "1" -> 1 [] t = "7" -> 7

\* strconv.Atoi
Atoi(s) ==
  IF Len(s) = 1 /\ s[1] \in IntToks
  THEN [ok |-> TRUE, n |-> IntOf(s[1])]
  ELSE [ok |-> FALSE, n |-> 0]

\* strconv.ParseFloat(s, 64); a float64 is kept in tenths
ParseFloat(s) ==
  IF Len(s) = 1 /\ s[1] \in IntToks THEN [ok |-> TRUE, n |-> 10 * IntOf(s[1])]
  ELSE IF s = Str("1.5") THEN [ok |-> TRUE, n |-> 15]
  ELSE [ok |-> FALSE, n |-> 0]

TrueToks == {"1", "t", "T", "TRUE", "true", "True"}
FalseToks == {"0", "f", "F", "FALSE", "false", "False"}

\* strconv.ParseBool
ParseBool(s) ==
  IF Len(s) = 1 /\ s[1] \in TrueToks THEN [ok |-> TRUE, n |-> 1]
  ELSE IF Len(s) = 1 /\ s[1] \in FalseToks THEN [ok |-> TRUE, n |-> 0]
  ELSE [ok |-> FALSE, n |-> 0]

\* ------------------------------------------------------------- requests
\* An http.Request: Method, the Content-Type header, the Cookie list, the
\* body, URL.RawQuery and URL.Path.  A body is [kind, raw, kv]: kind says
\* what the bytes are ("none" for an empty body, "form" for a urlencoded
\* form whose text is raw, "json" for a JSON object and "multipart" for a
\* multipart form whose fields are kv, "garbage" for bytes no parser accepts).
NoBody == [kind |-> "none", raw |-> Empty, kv |-> <<>>]
FormBody(raw) == [kind |-> "form", raw |-> raw, kv |-> <<>>]
JSONBody(kv) == [kind |-> "json", raw |-> Empty, kv |-> kv]
MultipartBody(kv) == [kind |-> "multipart", raw |-> Empty, kv |-> kv]
Garbage == [kind |-> "garbage", raw |-> Empty, kv |-> <<>>]

\* JSON values as decoded into interface{}
JStr(s) == [jt |-> "string", s |-> s]
JNum(s) == [jt |-> "number", s |-> s]
JNull == [jt |-> "null", s |-> Empty]
JArr(s) == [jt |-> "array", s |-> s]

\* mime.ParseMediaType on the Content-Type values of the model
MediaType(ct) ==
  CASE ct = "application/json; charset=utf-8" -> "application/json"
    [] ct = "multipart/form-data; boundary=z" -> "multipart/form-data"
    [] OTHER -> ct

\* the value list args stores for one JSON field (lines 68-75); a decoded
\* array is a []interface{}, never a []string, and is formatted with %v
JSONValues(v) ==
  CASE v.jt = "string" -> <<v.s>>
    [] v.jt = "null" -> <<Str("<nil>")>>
    [] v.jt = "array" -> <<Str("[") \o v.s \o Str("]")>>
    [] OTHER -> <<v.s>>

Lookup(m, k) == IF k \in DOMAIN m THEN m[k] ELSE <<>>

\* for k, v := range m2 { m1[k] = v }
Overwrite(m1, m2) ==
  [k \in DOMAIN m1 \cup DOMAIN m2 |-> IF k \in DOMAIN m2 THEN m2[k] ELSE m1[k]]

\* for k, v := range m2 { m1[k] = append(m1[k], v...) }
Append2(m1, m2) ==
  [k \in DOMAIN m1 \cup DOMAIN m2 |-> Lookup(m1, k) \o Lookup(m2, k)]

RECURSIVE CookieValues(_)
\* lines 54-56: a later cookie of the same name replaces an earlier one
CookieValues(cs) ==
  IF cs = <<>> THEN <<>>
  ELSE LET c == cs[Len(cs)]
       IN Overwrite(CookieValues(SubSeq(cs, 1, Len(cs) - 1)),
                    [k \in {c.Name} |-> <<c.Value>>])

BodyMethods == {"POST", "PUT", "PATCH"}

Ok(m) == [err |-> FALSE, m |-> m]
Failed == [err |-> TRUE, m |-> <<>>]

\* Request.ParseForm / ParseMultipartForm: r.Form, or a failure.  A
\* urlencoded body's values come before the query's, a multipart body's
\* after them; a body of another content type is not read.
RequestForm(r) ==
  LET ct == MediaType(r.CT)
      q == ParseQuery(r.RawQuery)
  IN CASE ct = "multipart/form-data" ->
            IF r.Body.kind = "multipart" THEN Ok(Append2(q, r.Body.kv)) ELSE Failed
       [] ct = "application/x-www-form-urlencoded" ->
            IF r.Body.kind = "form" THEN Ok(Append2(ParseQuery(r.Body.raw), q))
            ELSE IF r.Body.kind = "none" THEN Ok(q)
            ELSE Failed
       [] OTHER -> Ok(q)

\* lines 57-92 applied to the cookie entries vs: the entries after the body
\* has been gathered, or a failure
BodyEntries(r, vs) ==
  IF r.Method \notin BodyMethods THEN Ok(vs)
  ELSE IF MediaType(r.CT) = "application/json"
  THEN IF r.Body.kind = "json"
       THEN Ok(Overwrite(vs, [k \in DOMAIN r.Body.kv |-> JSONValues(r.Body.kv[k])]))
       ELSE Failed
  ELSE LET f == RequestForm(r)
       IN IF f.err THEN Failed ELSE Ok(Overwrite(vs, f.m))

\* Gather with the body gathered after the query string
GatherBodyLast(r) ==
  BodyEntries(r, Overwrite(CookieValues(r.Cookies), ParseQuery(r.RawQuery)))

\* lines 53-95: cookies, then the body, then the query string
Gather(r) ==
  LET b == BodyEntries(r, CookieValues(r.Cookies))
  IN IF b.err THEN Failed ELSE Ok(Overwrite(b.m, ParseQuery(r.RawQuery)))

\* lines 96-102: the values the path offers for effective name n
PathValues(r, n) ==
  LET pq == ParseQuery(Tail(r.Path))
  IN {pq[k] : k \in {x \in DOMAIN pq : Base(x) = n}}

PathNames(r) == {Base(k) : k \in DOMAIN ParseQuery(Tail(r.Path))}

\* args(r): the results it can return, a failure or a url.Values.  The loop
\* of lines 97-102 ranges over a Go map, so of several path keys with one
\* base name whichever comes first is inserted.
args(r) ==
  LET g == Gather(r)
      new == PathNames(r) \ DOMAIN g.m
      cand == UNION {PathValues(r, n) : n \in new}
  IN IF g.err THEN {Failed}
     ELSE {Ok(Overwrite(g.m, pick)) :
             pick \in {f \in [new -> cand] : \A n \in new : f[n] \in PathValues(r, n)}}

\* ---------------------------------------------------------- registration
\* A typed value (interface{}): k is the dynamic type, n the number (a
\* float64 in tenths, a bool as 0 or 1), s the string.
NoValue == [k |-> "nil", n |-> 0, s |-> Empty]
StringV(s) == [k |-> "string", n |-> 0, s |-> s]
Int64V(n) == [k |-> "int64", n |-> n, s |-> Empty]
Float64V(n) == [k |-> "float64", n |-> n, s |-> Empty]
BoolV(n) == [k |-> "bool", n |-> n, s |-> Empty]

\* Param (lines 18-25)
Param(name, type, default, required) ==
  [Name |-> name, Type |-> type, Default |-> default, Required |-> required,
   defval |-> NoValue]

NoError == [kind |-> "nil", name |-> Empty, val |-> Empty]
Error(kind, name, val) == [kind |-> kind, name |-> name, val |-> val]

\* lines 289-323: the typed default of one descriptor, or the error
Compile(p) ==
  LET t == ToLower(p.Type)
  IN CASE t = "string" -> [err |-> NoError, v |-> StringV(p.Default)]
       [] t = "int" ->
            IF p.Default = Empty THEN [err |-> NoError, v |-> Int64V(0)]
            ELSE IF Atoi(p.Default).ok
            THEN [err |-> NoError, v |-> Int64V(Atoi(p.Default).n)]
            ELSE [err |-> Error("default not integer", p.Name, p.Default), v |-> NoValue]
       [] t = "float" ->
            IF p.Default = Empty THEN [err |-> NoError, v |-> Float64V(0)]
            ELSE IF ParseFloat(p.Default).ok
            THEN [err |-> NoError, v |-> Float64V(ParseFloat(p.Default).n)]
            ELSE [err |-> Error("default not float", p.Name, p.Default), v |-> NoValue]
       [] t = "bool" ->
            IF p.Default = Empty THEN [err |-> NoError, v |-> BoolV(0)]
            ELSE IF ParseBool(p.Default).ok
            THEN [err |-> NoError, v |-> BoolV(ParseBool(p.Default).n)]
            ELSE [err |-> Error("default not bool", p.Name, p.Default), v |-> NoValue]
       [] OTHER -> [err |-> Error("invalid param type", p.Name, Str(p.Type)), v |-> NoValue]

RECURSIVE CompileFrom(_, _)
\* the loop of lines 288-326 from index i on: spec is the caller's slice,
\* written in place (lines 324-325) until a descriptor fails
CompileFrom(spec, i) ==
  IF i > Len(spec) THEN [err |-> NoError, spec |-> spec]
  ELSE LET c == Compile(spec[i])
       IN IF c.err # NoError THEN [err |-> c.err, spec |-> spec]
          ELSE CompileFrom([spec EXCEPT ![i].Type = ToLower(spec[i].Type),
                                        ![i].defval = c.v], i + 1)

Route == <<"/", "x", "/">>

NilMap == [nil |-> TRUE, m |-> <<>>]
NoRequest == [Method |-> "", CT |-> "", Cookies |-> <<>>, Body |-> NoBody,
              RawQuery |-> Empty, Path |-> Empty]

\* NewHandler (lines 287-334): the error, the caller's slice afterwards, and
\* the Handler of lines 327-332 (spec, Route, hdr and proc set; opts is left
\* a nil map, args a nil slice, req and err nil)
NewHandler(spec, proc) ==
  LET c == CompileFrom(spec, 1)
  IN [err |-> c.err, spec |-> c.spec, ok |-> c.err = NoError,
      h |-> [opts |-> NilMap, args |-> <<>>, req |-> NoRequest, err |-> NoError,
             hdr |-> <<>>, proc |-> proc]]

\* ------------------------------------------------------------ resolution
\* A typed list ([]string, []int64, []float64, []bool) stored in opts
List(k, v) == [k |-> k, v |-> v]

\* the parser the switch of lines 122-174 applies to one value of type t
ParseAs(t, s) ==
  CASE t = "int" -> Atoi(s)
    [] t = "float" -> ParseFloat(s)
    [] t = "bool" -> IF s = Empty THEN [ok |-> TRUE, n |-> 1] ELSE ParseBool(s)

ListKind(t) ==
  CASE t = "string" -> "[]string"
    [] t = "int" -> "[]int64"
    [] t = "float" -> "[]float64"
    [] t = "bool" -> "[]bool"

ErrorKind(t) ==
  CASE t = "int" -> "not an integer"
    [] t = "float" -> "not a float"
    [] t = "bool" -> "not a bool"

\* lines 122-174 for one descriptor and its source values v: the list to
\* store, or the error of the first value that does not parse
Coerce(p, v) ==
  IF p.Type = "string"
  THEN [err |-> NoError,
        list |-> List("[]string", IF Len(v) = 0 THEN <<p.defval.s>> ELSE v)]
  ELSE LET bad == {i \in 1..Len(v) : ~ParseAs(p.Type, v[i]).ok}
       IN IF bad # {}
          THEN LET i == CHOOSE x \in bad : \A y \in bad : x <= y
               IN [err |-> Error(ErrorKind(p.Type), p.Name, v[i]),
                   list |-> List(ListKind(p.Type), <<>>)]
          ELSE [err |-> NoError,
                list |-> List(ListKind(p.Type),
                              IF Len(v) = 0 THEN <<p.defval.n>>
                              ELSE [i \in 1..Len(v) |-> ParseAs(p.Type, v[i]).n])]

\* h.opts[name] = list: writing an entry of a nil map panics
Store(opts, name, list) ==
  IF opts.nil THEN [panic |-> TRUE, opts |-> opts]
  ELSE [panic |-> FALSE,
        opts |-> [opts EXCEPT !.m = Overwrite(opts.m, [k \in {name} |-> list])]]

RECURSIVE ResolveFrom(_, _, _, _)
\* the loop of lines 116-175 from descriptor i on
ResolveFrom(hh, spec, vs, i) ==
  IF i > Len(spec) THEN [h |-> hh, panic |-> FALSE]
  ELSE LET p == spec[i]
           v == Lookup(vs, p.Name)
       IN IF Len(v) = 0 /\ p.Required
          THEN [h |-> [hh EXCEPT !.err = Error("missing", p.Name, Empty)],
                panic |-> FALSE]
          ELSE LET c == Coerce(p, v)
               IN IF c.err # NoError
                  THEN [h |-> [hh EXCEPT !.err = c.err], panic |-> FALSE]
                  ELSE LET st == Store(hh.opts, p.Name, c.list)
                       IN IF st.panic THEN [h |-> hh, panic |-> TRUE]
                          ELSE ResolveFrom([hh EXCEPT !.opts = st.opts], spec, vs, i + 1)

Suffix(r) == SubSeq(r.Path, Len(Route) + 1, Len(r.Path))

\* parseArgs, lines 107-110
ParseArgsHead(hh, r) ==
  [hh EXCEPT !.req = r,
             !.args = IF Len(Suffix(r)) > 0 THEN SplitOn(Suffix(r), "/") ELSE hh.args]

\* parseArgs, lines 111-175, for the result a of args(r)
ParseArgsRest(hh, spec, a) ==
  IF a.err THEN [h |-> [hh EXCEPT !.err = Error("body", Empty, Empty)], panic |-> FALSE]
  ELSE ResolveFrom(hh, spec, a.m, 1)

\* ---------------------------------------------------------------- getters
GetErr(what) == [ok |-> FALSE, what |-> what, v |-> <<>>]

\* Strings, Integers, Floats, Bools (lines 178-244): want is the list type
\* the getter asserts
Getter(opts, name, want) ==
  IF name \notin DOMAIN opts.m THEN GetErr("does not exist")
  ELSE IF opts.m[name].k = want THEN [ok |-> TRUE, what |-> "", v |-> opts.m[name].v]
  ELSE GetErr("wrong type")

\* String, Integer, Float, Bool (lines 189-252): ss[0] faults on an empty list
Getter1(opts, name, want) ==
  LET g == Getter(opts, name, want)
  IN IF ~g.ok THEN [ok |-> FALSE, fault |-> FALSE, what |-> g.what, v |-> <<>>]
     ELSE IF Len(g.v) = 0 THEN [ok |-> FALSE, fault |-> TRUE, what |-> "index out of range", v |-> <<>>]
     ELSE [ok |-> TRUE, fault |-> FALSE, what |-> "", v |-> <<g.v[1]>>]

\* --------------------------------------------------------------- response
\* an http.Header; the keys of the model are in canonical form
HGet(hdr, k) == IF k \in DOMAIN hdr /\ Len(hdr[k]) > 0 THEN hdr[k][1] ELSE ""
HSet(hdr, k, v) == Overwrite(hdr, [x \in {k} |-> <<v>>])
HDel(hdr, k) == [x \in DOMAIN hdr \ {k} |-> hdr[x]]

\* Handler.Header (lines 44-50)
Header(hh, k, v) ==
  IF v = "" THEN [hh EXCEPT !.hdr = HDel(hh.hdr, k)]
  ELSE [hh EXCEPT !.hdr = HSet(hh.hdr, k, v)]

\* the http.ResponseWriter of one request: the header map, the status
\* written by WriteHeader (0 before it), whether a body was written
NewWriter == [hdr |-> <<>>, status |-> 0, body |-> "none"]

\* http.Error(w, text, code) on a new writer (line 256)
HTTPError(code) ==
  [hdr |-> HSet(HSet(NewWriter.hdr, "Content-Type", "text/plain; charset=utf-8"),
                "X-Content-Type-Options", "nosniff"),
   status |-> code, body |-> "string"]

Writable == {"[]byte", "string", "io.Reader"}

\* ServeHTTP, lines 261-284, for the (code, data) the Proc returned; data is
\* the dynamic type of the payload ("nil" for a nil interface)
Emit(hh, mime, code, data) ==
  LET h1 == IF HGet(hh.hdr, "Content-Type") = ""
            THEN [hh EXCEPT !.hdr = HSet(hh.hdr, "Content-Type", mime)]
            ELSE hh
      wh == HSet(Append2(NewWriter.hdr, h1.hdr), "X-Content-Type-Options", "nosniff")
  IN [h |-> h1,
      w |-> [hdr |-> wh, status |-> code,
             body |-> IF data \in Writable THEN data ELSE "none"],
      panic |-> data \notin Writable]

\* ------------------------------------------------------------ the inputs
Letters == <<"a", "b", "c", "d">>
NameAt(i) == Str(Letters[i])

\* (Type, Default, Required) of the descriptors a caller registers
Variants ==
  { <<"string", Empty, FALSE>>, <<"int", Str("7"), FALSE>>, <<"INT", Empty, TRUE>>,
    <<"bool", Empty, FALSE>>, <<"float", Str("1.5"), TRUE>>,
    <<"file", Empty, FALSE>>, <<"int", Str("q"), FALSE>> }

\* the descriptor lists a caller registers: descriptor i is named NameAt(i)
SpecLists ==
  UNION { { [i \in 1..n |-> Param(NameAt(i), f[i][1], f[i][2], f[i][3])] :
              f \in [1..n -> Variants] } : n \in 0..MaxSpec }

Req(method, ct, cookies, body, query, suffix) ==
  [Method |-> method, CT |-> ct, Cookies |-> cookies, Body |-> body,
   RawQuery |-> query, Path |-> Route \o suffix]

Requests ==
  { Req("GET", "", <<>>, NoBody, Empty, Empty),
    Req("GET", "", <<>>, NoBody, <<"a", "=", "7">>, <<"7", "/", "1">>),
    Req("GET", "", <<>>, NoBody, <<"a", "=", "q">>, Empty),
    Req("POST", "application/json", <<>>, Garbage, Empty, Empty),
    Req("POST", "application/x-www-form-urlencoded", <<>>,
        FormBody(<<"a", "=", "1", "&", "b", "=", "1.5">>), Empty, Empty),
    Req("GET", "", <<>>, NoBody, Empty, <<"a", "=", "7">>),
    Req("GET", "", <<[Name |-> Str("b"), Value |-> Str("true")]>>, NoBody,
        <<"a", "=">>, Empty),
    Req("POST", "application/json; charset=utf-8", <<>>,
        JSONBody([k \in {Str("a"), Str("b")} |->
                    IF k = Str("a") THEN JStr(Str("7")) ELSE JNum(Str("1.5"))]),
        Empty, Empty) }

\* What one invocation of the bound Proc does: it calls h.Header(hk, hv)
\* unless hk is "", and returns (code, data)
Behave(hk, hv, code, data) == [hk |-> hk, hv |-> hv, code |-> code, data |-> data]

\* http.StatusNotImplemented
NotImplemented == 501

Behaviours ==
  { Behave("", "", 200, "string"),
    Behave("Content-Type", "application/json", 200, "[]byte"),
    Behave("X-A", "1", 200, "string"),
    Behave("", "", 200, "nil"),
    Behave("X-A", "1", 400, "map"),
    Behave("Content-Type", "", 200, "io.Reader") }

InitialMIME == "text/plain; charset=utf-8"
MIMEs == {InitialMIME, "text/html"}

\* --------------------------------------------------------------- the state
VARIABLES
  spec,         \* the caller's descriptor slice, which Handler.spec shares
  given,        \* the descriptor list as it was passed to NewHandler
  phase,        \* "new", then "serving" or "failed" (NewHandler returned nil)
  h,            \* the Handler's fields opts, args, req, err, hdr, proc
  defaultMIME,  \* the package variable (line 38)
  tasks,        \* per task serving a request: its place in ServeHTTP and locals
  served        \* requests begun so far

vars == <<spec, given, phase, h, defaultMIME, tasks, served>>

Tasks == {1, 2}

NoObs == [err |-> NoError, args |-> <<>>, req |-> NoRequest, opts |-> NilMap]

\* pc is the task's place: "idle", "head" (lines 107-110 done), "parsed"
\* (parseArgs returned), "called" (line 260 done), and at the end "done",
\* "not implemented", "panic in parseArgs" or "panic in write".  r is the
\* request, a what args returned, obs what the Proc was shown, b what the
\* Proc did, mime the default content type read at line 262, w the writer.
Idle == [pc |-> "idle", r |-> NoRequest, a |-> Failed, obs |-> NoObs,
         b |-> Behave("", "", 0, "nil"), mime |-> "", w |-> NewWriter]

Init ==
  /\ spec = <<>>
  /\ given = <<>>
  /\ phase = "new"
  /\ h = NewHandler(<<>>, FALSE).h
  /\ defaultMIME = InitialMIME
  /\ tasks = [t \in Tasks |-> Idle]
  /\ served = 0

\* NewHandler(Route, sp, proc); hasProc is FALSE for a nil Proc
Register(sp, hasProc) ==
  /\ phase = "new"
  /\ LET n == NewHandler(sp, hasProc)
     IN /\ given' = sp
        /\ spec' = n.spec
        /\ phase' = IF n.ok THEN "serving" ELSE "failed"
        /\ h' = IF n.ok THEN n.h ELSE h
  /\ UNCHANGED <<defaultMIME, tasks, served>>

\* MIMEType(m) (lines 336-341)
MIMEType(m) ==
  /\ defaultMIME # m
  /\ defaultMIME' = m
  /\ UNCHANGED <<spec, given, phase, h, tasks, served>>

\* the Proc call of line 260: what it is shown and the Handler after it
CallProc(hh, b) ==
  [obs |-> [err |-> hh.err, args |-> hh.args, req |-> hh.req, opts |-> hh.opts],
   h |-> IF b.hk = "" THEN hh ELSE Header(hh, b.hk, b.hv)]

\* ServeHTTP (lines 254-285) for request r, args returning a and the Proc
\* behaving as b: the Handler afterwards and the task's record.  A panic
\* ends the request where it is raised; the binding stays registered.
ServeHTTP(hh, sp, mime, r, a, b) ==
  IF ~hh.proc
  THEN [h |-> hh,
        task |-> [Idle EXCEPT !.pc = "not implemented", !.r = r,
                              !.w = HTTPError(NotImplemented)]]
  ELSE LET p == ParseArgsRest(ParseArgsHead(hh, r), sp, a)
       IN IF p.panic
          THEN [h |-> p.h, task |-> [Idle EXCEPT !.pc = "panic in parseArgs", !.r = r, !.a = a]]
          ELSE LET c == CallProc(p.h, b)
                   e == Emit(c.h, mime, b.code, b.data)
               IN [h |-> e.h,
                   task |-> [pc |-> IF e.panic THEN "panic in write" ELSE "done",
                             r |-> r, a |-> a, obs |-> c.obs, b |-> b, mime |-> mime,
                             w |-> e.w]]

\* One request served from beginning to end
Serve(r, b) ==
  /\ phase = "serving"
  /\ served < MaxServed
  /\ \E a \in args(r) :
       LET s == ServeHTTP(h, spec, defaultMIME, r, a, b)
       IN /\ h' = s.h
          /\ tasks' = [tasks EXCEPT ![1] = s.task]
  /\ served' = served + 1
  /\ UNCHANGED <<spec, given, phase, defaultMIME>>

Next ==
  \/ \E sp \in SpecLists, hasProc \in BOOLEAN : Register(sp, hasProc)
  \/ \E m \in MIMEs : MIMEType(m)
  \/ \E r \in Requests, b \in Behaviours : Serve(r, b)

Spec == Init /\ [][Next]_vars

\* ----------------------------------------------------- requests in flight
\* net/http calls ServeHTTP of the one registered *Handler on a goroutine
\* per request.  Each task below runs ServeHTTP in four steps, and the
\* steps of two tasks interleave; the Handler's fields are written and read
\* without synchronisation, and the steps are the least any schedule keeps
\* together.

Fresh(t) == tasks[t].pc \in {"idle", "done", "not implemented",
                             "panic in parseArgs", "panic in write"}

\* lines 255-258 and 107-110
Start(t, r) ==
  /\ phase = "serving"
  /\ served < MaxServed
  /\ Fresh(t)
  /\ served' = served + 1
  /\ IF ~h.proc
     THEN /\ tasks' = [tasks EXCEPT ![t] = ServeHTTP(h, spec, defaultMIME, r, Failed, Idle.b).task]
          /\ h' = h
     ELSE /\ tasks' = [tasks EXCEPT ![t] = [Idle EXCEPT !.pc = "head", !.r = r]]
          /\ h' = ParseArgsHead(h, r)
  /\ UNCHANGED <<spec, given, phase, defaultMIME>>

\* lines 111-175
Parse(t) ==
  /\ tasks[t].pc = "head"
  /\ \E a \in args(tasks[t].r) :
       LET p == ParseArgsRest(h, spec, a)
       IN /\ h' = p.h
          /\ tasks' = [tasks EXCEPT ![t].a = a,
                                    ![t].pc = IF p.panic THEN "panic in parseArgs"
                                              ELSE "parsed"]
  /\ UNCHANGED <<spec, given, phase, defaultMIME, served>>

\* line 260
Call(t, b) ==
  /\ tasks[t].pc = "parsed"
  /\ LET c == CallProc(h, b)
     IN /\ h' = c.h
        /\ tasks' = [tasks EXCEPT ![t].obs = c.obs, ![t].b = b, ![t].pc = "called"]
  /\ UNCHANGED <<spec, given, phase, defaultMIME, served>>

\* lines 261-284
Respond(t) ==
  /\ tasks[t].pc = "called"
  /\ LET e == Emit(h, defaultMIME, tasks[t].b.code, tasks[t].b.data)
     IN /\ h' = e.h
        /\ tasks' = [tasks EXCEPT ![t].w = e.w, ![t].mime = defaultMIME,
                                  ![t].pc = IF e.panic THEN "panic in write" ELSE "done"]
  /\ UNCHANGED <<spec, given, phase, defaultMIME, served>>

\* the descriptor lists of the bindings that serve concurrent requests
ConcLists ==
  { <<>>,
    <<Param(NameAt(1), "int", Empty, TRUE)>>,
    <<Param(NameAt(1), "bool", Empty, TRUE), Param(NameAt(2), "string", Empty, FALSE)>> }

NextConc ==
  \/ \E sp \in ConcLists, hasProc \in BOOLEAN : Register(sp, hasProc)
  \/ \E t \in Tasks, r \in Requests : Start(t, r)
  \/ \E t \in Tasks : Parse(t)
  \/ \E t \in Tasks, b \in Behaviours : Call(t, b)
  \/ \E t \in Tasks : Respond(t)

SpecConc == Init /\ [][NextConc]_vars

\* ------------------------------------------------- source gathering alone
Digits == <<"1", "2", "3", "4">>
Names2 == {"a", "b"}

\* value i that source src supplies for name n, such as "qa1"
Val(src, n, i) == <<src, n, Digits[i]>>

RECURSIVE Pairs(_, _, _, _)
\* the text "n=v1&n=v2&..." of k values for each name of ns, keys prefixed
Pairs(src, prefix, ns, k) ==
  IF ns = {} THEN Empty
  ELSE LET n == CHOOSE x \in ns : TRUE
           RECURSIVE One(_)
           One(i) == IF i > k THEN Empty
                     ELSE (IF i > 1 THEN <<"&">> ELSE Empty) \o prefix \o <<n, "=">>
                          \o Val(src, n, i) \o One(i + 1)
           rest == Pairs(src, prefix, ns \ {n}, k)
       IN One(1) \o (IF rest = Empty THEN Empty ELSE <<"&">> \o rest)

RECURSIVE CookieList(_, _)
CookieList(ns, k) ==
  IF ns = {} THEN <<>>
  ELSE LET n == CHOOSE x \in ns : TRUE
       IN [i \in 1..k |-> [Name |-> Str(n), Value |-> Val("c", n, i)]]
          \o CookieList(ns \ {n}, k)

RECURSIVE Joined(_, _, _)
Joined(n, i, k) ==
  IF i > k THEN Empty
  ELSE (IF i > 1 THEN <<" ">> ELSE Empty) \o Val("b", n, i) \o Joined(n, i + 1, k)

BodyOf(ct, ns, k) ==
  CASE MediaType(ct) = "application/json" ->
         JSONBody([x \in {Str(n) : n \in ns} |->
                     IF k = 1 THEN JStr(Val("b", x[1], 1)) ELSE JArr(Joined(x[1], 1, k))])
    [] MediaType(ct) = "multipart/form-data" ->
         MultipartBody([x \in {Str(n) : n \in ns} |-> [i \in 1..k |-> Val("b", x[1], i)]])
    [] OTHER -> FormBody(Pairs("b", Empty, ns, k))

PathStyles == {"plain", "both"}

SuffixOf(style, ns, k) ==
  CASE style = "plain" -> Pairs("p", Empty, ns, k)
    [] style = "both" ->
         IF ns = {} THEN Empty
         ELSE Pairs("p", Empty, ns, k) \o <<"&">> \o Pairs("z", <<"y", "/">>, ns, k)

ContentTypes == {"application/json; charset=utf-8", "application/x-www-form-urlencoded",
                 "multipart/form-data; boundary=z", "text/plain"}

\* requests in which each source supplies k values for a subset of Names2
ArgRequests ==
  { Req(f.m, f.ct, CookieList(f.cn, f.k), BodyOf(f.ct, f.bn, f.k),
        Pairs("q", Empty, f.qn, f.k), SuffixOf(f.st, f.pn, f.k)) :
      f \in [m : {"GET", "POST", "PATCH"}, ct : ContentTypes, cn : SUBSET Names2,
             bn : SUBSET Names2, qn : SUBSET Names2, pn : SUBSET Names2,
             st : PathStyles, k : 1..MaxVals] }

ArgList == <<Param(Str("a"), "string", Empty, FALSE), Param(Str("b"), "string", Empty, FALSE)>>

\* the first request of a binding
ServeFirst(r, b) == served = 0 /\ Serve(r, b)

NextArgs ==
  \/ Register(ArgList, TRUE)
  \/ \E r \in ArgRequests : ServeFirst(r, Behave("", "", 200, "string"))

SpecArgs == Init /\ [][NextArgs]_vars

\* ------------------------------------------------- the claims' vocabulary
\* the Proc was invoked for the task's request
Called(t) == t.pc \in {"called", "done", "panic in write"}
\* the task's request was taken up by a binding that has a Proc
Taken(t) == t.pc \in {"parsed", "called", "done", "panic in parseArgs", "panic in write"}

CookieSupplies(r, n) == \E i \in 1..Len(r.Cookies) : r.Cookies[i].Name = n
QuerySupplies(r, n) == n \in DOMAIN ParseQuery(r.RawQuery)
PathSupplies(r, n) == PathValues(r, n) # {}

\* the fields of the body of a request whose body is gathered
BodyFields(r) ==
  IF r.Method \notin BodyMethods THEN <<>>
  ELSE CASE MediaType(r.CT) = "application/json" /\ r.Body.kind = "json" ->
              [k \in DOMAIN r.Body.kv |-> JSONValues(r.Body.kv[k])]
         [] MediaType(r.CT) = "multipart/form-data" /\ r.Body.kind = "multipart" ->
              r.Body.kv
         [] MediaType(r.CT) = "application/x-www-form-urlencoded" /\ r.Body.kind = "form" ->
              ParseQuery(r.Body.raw)
         [] OTHER -> <<>>
BodySupplies(r, n) == n \in DOMAIN BodyFields(r)

NoSource(r, n) ==
  ~(CookieSupplies(r, n) \/ BodySupplies(r, n) \/ QuerySupplies(r, n) \/ PathSupplies(r, n))

\* descriptor p has nothing to report for the gathered values vs: it is
\* supplied or optional, and every value it is given parses
Resolves(p, vs) ==
  /\ ~(Len(Lookup(vs, p.Name)) = 0 /\ p.Required)
  /\ Coerce(p, Lookup(vs, p.Name)).err = NoError

\* C1 (as claimed): a request served by a binding with a Proc, in which
\* gathering succeeded, required parameter i has no value in any source and
\* every parameter declared before it resolves, has the Proc invoked and is
\* shown the missing-parameter error for parameter i.
C1_MissingReportedAndDispatched ==
  \A i \in 1..Len(spec) :
    LET t == tasks[1]
    IN (/\ phase = "serving" /\ Taken(t) /\ ~t.a.err
        /\ spec[i].Required /\ NoSource(t.r, spec[i].Name)
        /\ \A j \in 1..(i - 1) : Resolves(spec[j], t.a.m))
       => (Called(t) /\ t.obs.err = Error("missing", spec[i].Name, Empty))

\* C5 (as claimed): in the first request of a binding, if gathering
\* succeeded and every declared parameter resolves, resolution completes
\* without failure and for each optional parameter without a value the list
\* getter of its declared type returns the one-element list of the default
\* compiled at registration.
C5_DefaultReturned ==
  \A i \in 1..Len(spec) :
    LET t == tasks[1]
    IN (/\ phase = "serving" /\ served = 1 /\ Taken(t) /\ ~t.a.err
        /\ ~spec[i].Required /\ NoSource(t.r, spec[i].Name)
        /\ \A j \in 1..Len(spec) : Resolves(spec[j], t.a.m))
       => (/\ Called(t)
           /\ t.obs.err = NoError
           /\ LET g == Getter(t.obs.opts, spec[i].Name, ListKind(spec[i].Type))
              IN g.ok /\ g.v = <<IF spec[i].Type = "string" THEN spec[i].defval.s
                                 ELSE spec[i].defval.n>>)

\* C6 (as claimed): in the first request of a binding, if gathering
\* succeeded, parameter i is an int, float or bool with a value that does
\* not parse and every parameter declared before it resolves, the Proc is
\* invoked and is shown the error naming parameter i and its first such
\* value, and neither parameter i nor a later one is stored.
C6_CoercionErrorReportedAndDispatched ==
  \A i \in 1..Len(spec) :
    LET t == tasks[1]
        c == Coerce(spec[i], Lookup(t.a.m, spec[i].Name))
    IN (/\ phase = "serving" /\ served = 1 /\ Taken(t) /\ ~t.a.err
        /\ spec[i].Type # "string" /\ c.err # NoError
        /\ \A j \in 1..(i - 1) : Resolves(spec[j], t.a.m))
       => (/\ Called(t)
           /\ t.obs.err = c.err
           /\ \A j \in i..Len(spec) : spec[j].Name \notin DOMAIN t.obs.opts.m)

Exported(p) == [Name |-> p.Name, Type |-> p.Type, Default |-> p.Default,
                Required |-> p.Required]

\* C7 (as claimed): once NewHandler has returned, with a binding or with an
\* error, the caller's descriptor list has the type strings and fields it
\* was passed with.
C7_CallerListUnchanged ==
  phase # "new" =>
    /\ Len(spec) = Len(given)
    /\ \A i \in 1..Len(spec) : Exported(spec[i]) = Exported(given[i])

\* C8 (as claimed): a response to a request in which the Proc set no
\* Content-Type carries the default content type of that moment, and
\* carries no header the Proc did not set in this request.
C8_DefaultContentTypeApplied ==
  LET t == tasks[1]
  IN (Called(t) /\ t.pc # "called") =>
       /\ t.b.hk # "Content-Type" => HGet(t.w.hdr, "Content-Type") = t.mime
       /\ \A k \in DOMAIN t.w.hdr \ {"Content-Type", "X-Content-Type-Options"} :
            t.b.hk = k

\* C9 (as claimed): when the request is aborted for a payload that cannot be
\* written, neither the status code nor a header has been written.
C9_NothingEmittedBeforeAbort ==
  \A n \in Tasks :
    tasks[n].pc = "panic in write" => (tasks[n].w.status = 0 /\ tasks[n].w.hdr = <<>>)

OwnError(a) == ParseArgsRest(NewHandler(<<>>, TRUE).h, spec, a).h.err

\* C2 (as claimed): what the Proc is shown in a request served after others
\* is that request's own: no error when its own resolution records none, no
\* path arguments when its path suffix is empty, and no parameter value
\* under a name this request did not resolve.
C2_ObservedStateIsOwn ==
  LET t == tasks[1]
  IN (phase = "serving" /\ Called(t)) =>
       /\ (~t.a.err /\ \A j \in 1..Len(spec) : Resolves(spec[j], t.a.m))
            => t.obs.err = NoError
       /\ Len(Suffix(t.r)) = 0 => t.obs.args = <<>>
       /\ \A j \in 1..Len(spec) :
            spec[j].Name \in DOMAIN t.obs.opts.m
              => (~t.a.err /\ \A x \in 1..j : Resolves(spec[x], t.a.m))

\* C3 (as claimed): with two requests in flight, each invocation of the
\* Proc is shown the request reference of its own request, the path
\* arguments of its own path suffix and the error its own resolution
\* recorded.
C3_ObservedStateIsOwnConcurrently ==
  \A n \in Tasks :
    LET t == tasks[n]
    IN (phase = "serving" /\ Called(t)) =>
         /\ t.obs.req = t.r
         /\ Len(Suffix(t.r)) > 0 => t.obs.args = SplitOn(Suffix(t.r), "/")
         /\ OwnError(t.a) # NoError => t.obs.err = OwnError(t.a)

LastCookie(r, n) ==
  LET i == CHOOSE x \in 1..Len(r.Cookies) :
             /\ r.Cookies[x].Name = n
             /\ \A y \in (x + 1)..Len(r.Cookies) : r.Cookies[y].Name # n
  IN r.Cookies[i].Value

\* C4: for every declared name n, the value list resolution uses for n is
\* the query string's when the query string supplies n, else the body's
\* when the body (gathered only for POST, PUT and PATCH) supplies n, else
\* the cookie's; a path-embedded pair whose key's last segment is n is used
\* only when none of these supplies n.
C4_SourcePrecedence ==
  LET t == tasks[1]
      r == t.r
  IN (phase = "serving" /\ Taken(t) /\ ~t.a.err) =>
       \A i \in 1..Len(spec) :
         LET n == spec[i].Name
             used == Lookup(t.a.m, n)
         IN IF QuerySupplies(r, n) THEN used = ParseQuery(r.RawQuery)[n]
            ELSE IF BodySupplies(r, n) THEN used = BodyFields(r)[n]
            ELSE IF CookieSupplies(r, n) THEN used = <<LastCookie(r, n)>>
            ELSE IF PathSupplies(r, n) THEN used \in PathValues(r, n)
            ELSE used = <<>>

\* C4's case: a request whose four sources all supply a, and whose path
\* alone supplies b, has been resolved
C4_Witness ==
  LET t == tasks[1]
      r == t.r
  IN /\ phase = "serving" /\ Taken(t) /\ ~t.a.err
     /\ QuerySupplies(r, Str("a")) /\ BodySupplies(r, Str("a"))
     /\ CookieSupplies(r, Str("a")) /\ PathSupplies(r, Str("a"))
     /\ NoSource(r, Str("c"))
     /\ PathSupplies(r, Str("b"))
     /\ ~(QuerySupplies(r, Str("b")) \/ BodySupplies(r, Str("b")) \/ CookieSupplies(r, Str("b")))
     /\ Lookup(t.a.m, Str("a")) = ParseQuery(r.RawQuery)[Str("a")]
     /\ Lookup(t.a.m, Str("b")) \in PathValues(r, Str("b"))

====
